---- MODULE Spec2Model ----
(***************************************************************************)
(* Model of pkg/rid/cockroach/subscriptions.go: the SubscriptionStore, a   *)
(* stateless facade that turns each repository call into one SQL statement *)
(* against the relation "subscriptions".  The state is the relation, the   *)
(* injected clock, the database's transaction timestamp and a record of    *)
(* the last call with its result.  One action per exported method; each    *)
(* statement executes atomically (one implicit transaction per call).      *)
(***************************************************************************)
EXTENDS Integers, FiniteSets, Sequences, TLC

\* ---------------------------------------------------------------- bounds
MaxTs == 2      \* number of write transactions (insert/update) in a run
MaxNow == 2     \* the injected clock runs over 0..MaxNow
MaxIdx == 2     \* notification_index is advanced at most up to MaxIdx
CellBits == 2   \* width of a cell id in the model (uint64 / int64 in the code)

\* ------------------------------------------------------- value universes
NULL == -1                       \* SQL NULL / Go nil for the time columns
NoVersion == 0                   \* the empty Version (Version.Empty())
IDs == {"A", "B"}
Owners == {"o1", "o2"}
URLs == {"u1"}
InvalidCell == 0                 \* a cell id geo.ValidateCell rejects
CellIDs == {1, 2}                \* legal cell ids; a CellUnion is a slice of
                                 \* cell ids, duplicates and order possible
StartTimes == {0}
EndTimes == {NULL, 1}
Indexes == {0, 1}                \* caller supplied NotificationIndex values
Versions == 1..MaxTs

Range(f) == {f[i] : i \in DOMAIN f}

\* int64(cell): the unsigned cell id reinterpreted as a signed integer of the
\* same width (under a bound that pushes the width past 30 bits, where 2^width
\* leaves the checker's integers, no model cell has the top bit and the value
\* is kept)
Int64(cell) ==
    IF CellBits <= 30 /\ cell >= 2 ^ (CellBits - 1)
    THEN cell - 2 ^ CellBits ELSE cell

\* cids := make([]int64, len(cells)); cids[i] = int64(cell)
Cids(cells) == [i \in DOMAIN cells |-> Int64(cells[i])]

\* s2.CellID(cid): the signed column value back as an unsigned cell id
CellID(cid) == IF cid < 0 THEN cid + 2 ^ CellBits ELSE cid

\* Subscription.SetCells(cids)
SetCells(cids) == [i \in DOMAIN cids |-> CellID(cids[i])]

Max(S) == CHOOSE x \in S : \A y \in S : y <= x

VARIABLES
    table,      \* the relation subscriptions: a set of rows
    now,        \* SubscriptionStore.clock.Now()
    txnTime,    \* the last transaction_timestamp() the database handed out
    prev,       \* the relation before the last call
    last,       \* the last call: method, arguments, returned values
    written,    \* per id, the row as its last INSERT/UPDATE statement wrote it
    advRet,     \* per id, the calls of UpdateNotificationIdxsInCells that returned
                \* the row since its last INSERT/UPDATE: cells passed, index returned
    casWins,    \* per (id, version), how many CAS updates and CAS deletes
                \* presenting it succeeded
    callers     \* the callers running a read / submit / retry loop (SpecRetry):
                \* where each one is, the version it holds, what happened to it

vars == <<table, now, txnTime, prev, last, written, advRet, casWins, callers>>

\* "no row" and the nil *Subscription
NoRow ==
    [id |-> "none", owner |-> "none", url |-> "none", notification_index |-> 0,
     cells |-> <<>>, starts_at |-> NULL, ends_at |-> NULL, updated_at |-> NoVersion]

NoSub ==
    [ID |-> "none", Owner |-> "none", URL |-> "none", NotificationIndex |-> 0,
     Cells |-> <<>>, StartTime |-> NULL, EndTime |-> NULL, Version |-> NoVersion]

\* const subscriptionFields: the columns of a row, in order
subscriptionFields ==
    <<"id", "owner", "url", "notification_index", "cells", "starts_at",
      "ends_at", "updated_at">>

\* rows.Scan(&s.ID, &s.Owner, ..., &s.Version); s.SetCells(cids)
\* a broken variant of Scan: the version handed back is not the stored
\* updated_at but the timestamp before it
ScanOldVersion(r) ==
    [ID |-> r.id, Owner |-> r.owner, URL |-> r.url,
     NotificationIndex |-> r.notification_index,
     Cells |-> [i \in DOMAIN r.cells |->
                  IF r.cells[i] < 0 THEN r.cells[i] + 2 ^ CellBits ELSE r.cells[i]],
     StartTime |-> r.starts_at, EndTime |-> r.ends_at,
     Version |-> r.updated_at - 1]

\* a broken variant of Scan: the cells column is handed back as stored, without
\* the conversion back to cell ids
ScanRawCells(r) ==
    [ID |-> r.id, Owner |-> r.owner, URL |-> r.url,
     NotificationIndex |-> r.notification_index, Cells |-> r.cells,
     StartTime |-> r.starts_at, EndTime |-> r.ends_at, Version |-> r.updated_at]

Scan(r) ==
    [ID |-> r.id, Owner |-> r.owner, URL |-> r.url,
     NotificationIndex |-> r.notification_index, Cells |-> SetCells(r.cells),
     StartTime |-> r.starts_at, EndTime |-> r.ends_at, Version |-> r.updated_at]

\* process: run the statement, scan every returned row into a Subscription
process(res) ==
    IF res.err # "nil"
    THEN [subs |-> {}, err |-> res.err]
    ELSE [subs |-> {Scan(r) : r \in res.rows}, err |-> "nil"]

\* a broken variant of processOne: of several subscriptions, one is returned
processOneAnyRow(res) ==
    LET p == process(res) IN
    IF p.err # "nil" THEN [sub |-> NoSub, err |-> p.err]
    ELSE IF Cardinality(p.subs) = 0 THEN [sub |-> NoSub, err |-> "ErrNoRows"]
    ELSE [sub |-> CHOOSE s \in p.subs : TRUE, err |-> "nil"]

\* processOne: exactly one subscription, or an error
processOne(res) ==
    LET p == process(res) IN
    IF p.err # "nil" THEN [sub |-> NoSub, err |-> p.err]
    ELSE IF Cardinality(p.subs) > 1 THEN [sub |-> NoSub, err |-> "TooManyRows"]
    ELSE IF Cardinality(p.subs) = 0 THEN [sub |-> NoSub, err |-> "ErrNoRows"]
    ELSE [sub |-> CHOOSE s \in p.subs : TRUE, err |-> "nil"]

\* a broken variant of Overlaps: containment (every cell of a is in b)
OverlapsContained(a, b) ==
    /\ a # <<>>
    /\ \A i \in DOMAIN a : \E j \in DOMAIN b : a[i] = b[j]

\* SQL: cells && $1 (the arrays share an element)
Overlaps(a, b) == \E i \in DOMAIN a : \E j \in DOMAIN b : a[i] = b[j]

\* a broken variant of EndsAtOrAfter: a NULL ends_at counts as "never ends"
EndsAtOrAfterNullOpen(r, t) == r.ends_at = NULL \/ r.ends_at >= t

\* SQL: ends_at >= $n (NULL compares as unknown, the row is not selected)
EndsAtOrAfter(r, t) == r.ends_at # NULL /\ r.ends_at >= t

\* geo.ValidateCell
ValidateCell(cell) == IF cell = InvalidCell THEN "InvalidCell" ELSE "nil"

\* a broken variant of RowOf: the timestamp is stored at half the resolution,
\* so two successive write transactions can stamp the same updated_at
RowOfCoarseStamp(s, ts) ==
    [id |-> s.ID, owner |-> s.Owner, url |-> s.URL,
     notification_index |-> s.NotificationIndex, cells |-> Cids(s.Cells),
     starts_at |-> s.StartTime, ends_at |-> s.EndTime,
     updated_at |-> (ts + 1) \div 2]

\* the row ($1, ..., $7, transaction_timestamp()) of insertQuery / udpateQuery
RowOf(s, ts) ==
    [id |-> s.ID, owner |-> s.Owner, url |-> s.URL,
     notification_index |-> s.NotificationIndex, cells |-> Cids(s.Cells),
     starts_at |-> s.StartTime, ends_at |-> s.EndTime, updated_at |-> ts]

\* a broken variant of UniqueViolation: the table has no unique key
NoUniqueKey(tbl, id) == FALSE

\* the unique key of the subscriptions table (id): an INSERT of a stored id is
\* rejected by the database
UniqueViolation(tbl, id) == \E r \in tbl : r.id = id

\* a broken variant of insertQuery: a stored row of the id is replaced
insertQueryReplace(tbl, s, ts) ==
    [tbl |-> {r \in tbl : r.id # s.ID} \cup {RowOf(s, ts)},
     rows |-> {RowOf(s, ts)}, err |-> "nil"]

\* insertQuery: INSERT INTO subscriptions ... RETURNING; id is the unique key
insertQuery(tbl, s, ts) ==
    IF UniqueViolation(tbl, s.ID)
    THEN [tbl |-> tbl, rows |-> {}, err |-> "DuplicateKey"]
    ELSE [tbl |-> tbl \cup {RowOf(s, ts)}, rows |-> {RowOf(s, ts)}, err |-> "nil"]

\* a broken variant of udpateQuery: SET leaves updated_at as it is
udpateQueryKeepsVersion(tbl, s, ts) ==
    LET hit == {r \in tbl : r.id = s.ID /\ r.updated_at = s.Version} IN
    [tbl |-> (tbl \ hit) \cup {RowOf(s, r.updated_at) : r \in hit},
     rows |-> {RowOf(s, r.updated_at) : r \in hit}, err |-> "nil"]

\* a broken variant of udpateQuery: an id that is not stored is inserted
udpateQueryUpsert(tbl, s, ts) ==
    LET hit == {r \in tbl : r.id = s.ID /\ r.updated_at = s.Version} IN
    IF \E r \in tbl : r.id = s.ID
    THEN [tbl |-> (tbl \ hit) \cup {RowOf(s, ts) : r \in hit},
          rows |-> {RowOf(s, ts) : r \in hit}, err |-> "nil"]
    ELSE [tbl |-> tbl \cup {RowOf(s, ts)}, rows |-> {RowOf(s, ts)}, err |-> "nil"]

\* udpateQuery: UPDATE subscriptions SET (...) = ($1..$7, transaction_timestamp())
\*              WHERE id = $1 AND updated_at = $8 RETURNING ...
udpateQuery(tbl, s, ts) ==
    LET hit == {r \in tbl : r.id = s.ID /\ r.updated_at = s.Version} IN
    [tbl |-> (tbl \ hit) \cup {RowOf(s, ts) : r \in hit},
     rows |-> {RowOf(s, ts) : r \in hit}, err |-> "nil"]

\* a broken variant of deleteQuery: the WHERE clause forgets updated_at = $3
deleteQueryAnyVersion(tbl, s) ==
    LET hit == {r \in tbl : r.id = s.ID /\ r.owner = s.Owner} IN
    [tbl |-> tbl \ hit, rows |-> hit, err |-> "nil"]

\* a broken variant of deleteQuery: the WHERE clause forgets owner = $2
deleteQueryAnyOwner(tbl, s) ==
    LET hit == {r \in tbl : r.id = s.ID /\ r.updated_at = s.Version} IN
    [tbl |-> tbl \ hit, rows |-> hit, err |-> "nil"]

\* DELETE FROM subscriptions WHERE id = $1 AND owner = $2 AND updated_at = $3
deleteQuery(tbl, s) ==
    LET hit == {r \in tbl : r.id = s.ID /\ r.owner = s.Owner
                              /\ r.updated_at = s.Version} IN
    [tbl |-> tbl \ hit, rows |-> hit, err |-> "nil"]

\* a broken variant of updateQuery: the WHERE clause forgets cells && $1
updateQueryAllActive(tbl, cids, t) ==
    LET hit == {r \in tbl : r.ends_at # NULL /\ r.ends_at >= t} IN
    [tbl |-> (tbl \ hit)
               \cup {[r EXCEPT !.notification_index = @ + 1] : r \in hit},
     rows |-> {[r EXCEPT !.notification_index = @ + 1] : r \in hit}, err |-> "nil"]

\* a broken variant of updateQuery: read, then write: the new index is computed
\* from the index read when the row was last written, not from the stored one
updateQueryFromSnapshot(tbl, cids, t) ==
    LET hit == {r \in tbl : (\E i \in DOMAIN r.cells : \E j \in DOMAIN cids :
                                r.cells[i] = cids[j])
                             /\ r.ends_at # NULL /\ r.ends_at >= t}
        new(r) == [r EXCEPT !.notification_index =
                                written[r.id].notification_index + 1]
    IN [tbl |-> (tbl \ hit) \cup {new(r) : r \in hit},
        rows |-> {new(r) : r \in hit}, err |-> "nil"]

\* a broken variant of Bump: the statement also moves updated_at
BumpAndStamp(r) ==
    [r EXCEPT !.notification_index = r.notification_index + 1,
              !.updated_at = r.updated_at + 1]

\* SET notification_index = notification_index + 1
Bump(r) == [r EXCEPT !.notification_index = r.notification_index + 1]

\* updateQuery of UpdateNotificationIdxsInCells:
\* UPDATE subscriptions SET notification_index = notification_index + 1
\* WHERE cells && $1 AND ends_at >= $2 RETURNING ...
updateQuery(tbl, cids, t) ==
    LET hit == {r \in tbl : Overlaps(r.cells, cids) /\ EndsAtOrAfter(r, t)} IN
    [tbl |-> (tbl \ hit) \cup {Bump(r) : r \in hit},
     rows |-> {Bump(r) : r \in hit}, err |-> "nil"]

\* SELECT ... FROM subscriptions WHERE id = $1
getQuery(tbl, id) == [tbl |-> tbl, rows |-> {r \in tbl : r.id = id}, err |-> "nil"]

\* SELECT ... WHERE cells && $1 AND ends_at >= $2
searchQuery(tbl, cids, t) ==
    [tbl |-> tbl,
     rows |-> {r \in tbl : Overlaps(r.cells, cids) /\ EndsAtOrAfter(r, t)},
     err |-> "nil"]

\* SELECT ... WHERE cells && $1 AND subscriptions.owner = $2 AND ends_at >= $3
searchByOwnerQuery(tbl, cids, owner, t) ==
    [tbl |-> tbl,
     rows |-> {r \in tbl : Overlaps(r.cells, cids) /\ r.owner = owner
                            /\ EndsAtOrAfter(r, t)},
     err |-> "nil"]

\* number of positions of the array a that hold c (rows of unnest(a) equal to c)
RECURSIVE Occurrences(_, _)
Occurrences(a, c) ==
    IF a = <<>> THEN 0
    ELSE (IF Head(a) = c THEN 1 ELSE 0) + Occurrences(Tail(a), c)

RECURSIVE SumOver(_, _)
SumOver(S, c) ==
    IF S = {} THEN 0
    ELSE LET r == CHOOSE x \in S : TRUE IN
         Occurrences(r.cells, c) + SumOver(S \ {r}, c)

\* COUNT(*) ... FROM (SELECT unnest(cells) AS cell_id FROM subscriptions
\*   WHERE owner = $1 AND ends_at >= $2) WHERE cell_id = c GROUP BY cell_id
subscriptions_per_cell_id(tbl, owner, t, c) ==
    SumOver({r \in tbl : r.owner = owner /\ EndsAtOrAfter(r, t)}, c)

\* SELECT IFNULL(MAX(subscriptions_per_cell_id), 0) FROM (... cell_id = ANY($3)
\*   GROUP BY cell_id): a group exists only for a cell with at least one row
maxCountQuery(tbl, owner, t, cids) ==
    LET groups == {c \in Range(cids) : subscriptions_per_cell_id(tbl, owner, t, c) > 0}
    IN IF groups = {} THEN 0
       ELSE Max({subscriptions_per_cell_id(tbl, owner, t, c) : c \in groups})

\* ------------------------------------------------------------ the calls
\* the subscriptions callers pass to InsertSubscription in Spec: every id,
\* owner and version (empty: insert; non-empty: CAS update), index 0
Subscriptions ==
    [ID : IDs, Owner : Owners, URL : URLs, NotificationIndex : {0},
     Cells : {<<2>>, <<2, 0>>}, StartTime : StartTimes, EndTime : {1},
     Version : {NoVersion} \cup Versions]

\* the new subscriptions of SpecSearch: every owner, cell union and end time
SearchInputs ==
    [ID : IDs, Owner : Owners, URL : URLs, NotificationIndex : {0},
     Cells : {<<1>>, <<2>>, <<1, 1>>, <<1, 2>>, <<1, 0>>}, StartTime : StartTimes,
     EndTime : EndTimes, Version : {NoVersion}]

\* the new subscriptions of SpecAdvance: one owner, every index and end time,
\* two coverages
AdvanceInputs ==
    [ID : IDs, Owner : {"o1"}, URL : URLs, NotificationIndex : Indexes,
     Cells : {<<1>>, <<1, 2>>}, StartTime : StartTimes,
     EndTime : EndTimes, Version : {NoVersion}]

\* the cell unions of the queries
QueryCells == {<<>>, <<1>>, <<2>>, <<1, 2>>}

\* what last keeps of the argument of an InsertSubscription call that failed:
\* the id and version it presented (its statements match on nothing else)
Key(s) == [NoSub EXCEPT !.ID = s.ID, !.Version = s.Version]

Arg(s, err) == IF err = "nil" THEN s ELSE Key(s)

\* the subscriptions a caller can pass to DeleteSubscription (id, owner, version)
DeleteArgs ==
    {[NoSub EXCEPT !.ID = i, !.Owner = o, !.Version = v] :
        i \in IDs, o \in Owners, v \in Versions}

Call(op, s, cells, owner, ret, count, err) ==
    [op |-> op, sub |-> s, cells |-> cells, owner |-> owner, ret |-> ret,
     count |-> count, err |-> err]

One(out) == IF out.err = "nil" THEN {out.sub} ELSE {}

RowFor(tbl, id) == IF \E r \in tbl : r.id = id
                   THEN CHOOSE r \in tbl : r.id = id ELSE NoRow

\* the timestamps a row can carry: the retry loops of SpecRetry get one write
\* more than MaxTs, so that a caller that lost to a write can still win
RetryMaxTs == MaxTs + 1
Stamps == 1..RetryMaxTs

\* the callers of a retry loop, the one subscription they work on
Callers == {"c1", "c2"}
RetryID == "A"
RetrySub(v) ==
    [NoSub EXCEPT !.ID = RetryID, !.Owner = "o1", !.URL = "u1", !.Cells = <<2>>,
                  !.StartTime = 0, !.EndTime = 1, !.Version = v]

\* no caller is running
NoCallers ==
    [c \in Callers |-> [pc |-> "idle", kind |-> "none", held |-> NoVersion,
                        clean |-> FALSE, lost |-> FALSE, lostClean |-> FALSE]]

Init ==
    /\ table = {}
    /\ now = 0
    /\ txnTime = 0
    /\ prev = {}
    /\ last = Call("init", NoSub, <<>>, "none", {}, 0, "nil")
    /\ written = [i \in IDs |-> NoRow]
    /\ advRet = [i \in IDs |-> <<>>]
    /\ casWins = [k \in IDs \X Stamps |-> [update |-> 0, delete |-> 0]]
    /\ callers = NoCallers

\* a broken variant of InsertInvalid: the statement is issued before the cells
\* are validated
InsertInvalidAfterWrite(s) ==
    /\ \E i \in DOMAIN s.Cells : ValidateCell(s.Cells[i]) # "nil"
    /\ txnTime < MaxTs
    /\ table' = IF s.Version = NoVersion
                THEN insertQuery(table, s, txnTime + 1).tbl
                ELSE udpateQuery(table, s, txnTime + 1).tbl
    /\ txnTime' = txnTime + 1
    /\ last' = Call("InsertSubscription", [Key(s) EXCEPT !.Cells = s.Cells], <<>>,
                    "none", {}, 0, "InvalidCell")
    /\ prev' = table
    /\ UNCHANGED <<now, written, advRet, casWins>>
    /\ UNCHANGED callers

\* InsertSubscription, lines 153-160: a cell fails geo.ValidateCell
InsertInvalid(s) ==
    /\ \E i \in DOMAIN s.Cells : ValidateCell(s.Cells[i]) # "nil"
    /\ last' = Call("InsertSubscription", [Key(s) EXCEPT !.Cells = s.Cells], <<>>,
                    "none", {}, 0, "InvalidCell")
    /\ prev' = table
    /\ UNCHANGED <<table, now, txnTime, written, advRet, casWins>>
    /\ UNCHANGED callers

\* InsertSubscription with s.Version.Empty(): the insertQuery branch.
\* transaction_timestamp(): every call is one statement in its own transaction,
\* and the database stamps successive write transactions with strictly
\* increasing timestamps; txnTime is the last one handed out (at most MaxTs).
Insert(s) ==
    /\ \A i \in DOMAIN s.Cells : ValidateCell(s.Cells[i]) = "nil"
    /\ s.Version = NoVersion
    /\ LET res == insertQuery(table, s, txnTime + 1)
           out == processOne(res)
       IN /\ res.tbl # table => txnTime < MaxTs
          /\ table' = res.tbl
          /\ txnTime' = IF res.tbl # table THEN txnTime + 1 ELSE txnTime
          /\ last' = Call("InsertSubscription", Arg(s, out.err), <<>>, "none",
                          One(out), 0, out.err)
          /\ written' = IF out.err = "nil"
                        THEN [written EXCEPT ![s.ID] = RowFor(res.tbl, s.ID)]
                        ELSE written
          /\ advRet' = IF out.err = "nil" THEN [advRet EXCEPT ![s.ID] = <<>>]
                       ELSE advRet
    /\ prev' = table
    /\ UNCHANGED <<now, casWins>>
    /\ UNCHANGED callers

\* InsertSubscription with a non-empty s.Version: the udpateQuery branch (CAS)
Update(s) ==
    /\ \A i \in DOMAIN s.Cells : ValidateCell(s.Cells[i]) = "nil"
    /\ s.Version # NoVersion
    /\ LET res == udpateQuery(table, s, txnTime + 1)
           out == processOne(res)
       IN /\ res.tbl # table => txnTime < MaxTs
          /\ table' = res.tbl
          /\ txnTime' = IF res.tbl # table THEN txnTime + 1 ELSE txnTime
          /\ last' = Call("InsertSubscription", Arg(s, out.err), <<>>, "none",
                          One(out), 0, out.err)
          /\ written' = IF out.err = "nil"
                        THEN [written EXCEPT ![s.ID] = RowFor(res.tbl, s.ID)]
                        ELSE written
          /\ advRet' = IF out.err = "nil" THEN [advRet EXCEPT ![s.ID] = <<>>]
                       ELSE advRet
          /\ casWins' = IF out.err = "nil"
                        THEN [casWins EXCEPT ![<<s.ID, s.Version>>].update = @ + 1]
                        ELSE casWins
    /\ prev' = table
    /\ UNCHANGED now
    /\ UNCHANGED callers

InsertSubscription(s) == InsertInvalid(s) \/ Insert(s) \/ Update(s)

\* DeleteSubscription (CAS on id, owner and version)
DeleteSubscription(s) ==
    /\ LET res == deleteQuery(table, s)
           out == processOne(res)
       IN /\ table' = res.tbl
          /\ last' = Call("DeleteSubscription", s, <<>>, "none", One(out), 0, out.err)
          /\ written' = IF out.err = "nil" THEN [written EXCEPT ![s.ID] = NoRow]
                        ELSE written
          /\ advRet' = IF out.err = "nil" THEN [advRet EXCEPT ![s.ID] = <<>>]
                       ELSE advRet
          /\ casWins' = IF out.err = "nil"
                        THEN [casWins EXCEPT ![<<s.ID, s.Version>>].delete = @ + 1]
                        ELSE casWins
    /\ prev' = table
    /\ UNCHANGED <<now, txnTime>>
    /\ UNCHANGED callers

\* UpdateNotificationIdxsInCells
UpdateNotificationIdxsInCells(cells) ==
    /\ LET res == updateQuery(table, Cids(cells), now)
           out == process(res)
       IN /\ \A r \in res.rows : r.notification_index <= MaxIdx
          /\ table' = res.tbl
          /\ last' = Call("UpdateNotificationIdxsInCells", NoSub, cells, "none",
                          out.subs, 0, out.err)
          /\ advRet' = [i \in IDs |->
                          IF \E r \in res.rows : r.id = i
                          THEN Append(advRet[i],
                                      [cells |-> cells,
                                       index |-> RowFor(res.rows, i).notification_index])
                          ELSE advRet[i]]
    /\ prev' = table
    /\ UNCHANGED <<now, txnTime, written, casWins>>
    /\ UNCHANGED callers

\* GetSubscription
GetSubscription(id) ==
    /\ LET out == processOne(getQuery(table, id))
       IN last' = Call("GetSubscription", [NoSub EXCEPT !.ID = id], <<>>, "none",
                       One(out), 0, out.err)
    /\ prev' = table
    /\ UNCHANGED <<table, now, txnTime, written, advRet, casWins>>
    /\ UNCHANGED callers

\* a broken variant of SearchSubscriptions: the len(cells) == 0 check is missing
SearchSubscriptionsNoLenCheck(cells) ==
    /\ LET out == process(searchQuery(table, Cids(cells), now))
       IN last' = Call("SearchSubscriptions", NoSub, cells, "none",
                       out.subs, 0, out.err)
    /\ prev' = table
    /\ UNCHANGED <<table, now, txnTime, written, advRet, casWins>>
    /\ UNCHANGED callers

\* SearchSubscriptions
SearchSubscriptions(cells) ==
    /\ IF Len(cells) = 0
       THEN last' = Call("SearchSubscriptions", NoSub, cells, "none", {}, 0, "BadRequest")
       ELSE LET out == process(searchQuery(table, Cids(cells), now))
            IN last' = Call("SearchSubscriptions", NoSub, cells, "none",
                            out.subs, 0, out.err)
    /\ prev' = table
    /\ UNCHANGED <<table, now, txnTime, written, advRet, casWins>>
    /\ UNCHANGED callers

\* SearchSubscriptionsByOwner
SearchSubscriptionsByOwner(cells, owner) ==
    /\ IF Len(cells) = 0
       THEN last' = Call("SearchSubscriptionsByOwner", NoSub, cells, owner, {}, 0,
                         "BadRequest")
       ELSE LET out == process(searchByOwnerQuery(table, Cids(cells), owner, now))
            IN last' = Call("SearchSubscriptionsByOwner", NoSub, cells, owner,
                            out.subs, 0, out.err)
    /\ prev' = table
    /\ UNCHANGED <<table, now, txnTime, written, advRet, casWins>>
    /\ UNCHANGED callers

\* MaxSubscriptionCountInCellsByOwner
MaxSubscriptionCountInCellsByOwner(cells, owner) ==
    /\ last' = Call("MaxSubscriptionCountInCellsByOwner", NoSub, cells, owner, {},
                    maxCountQuery(table, owner, now, Cids(cells)), "nil")
    /\ prev' = table
    /\ UNCHANGED <<table, now, txnTime, written, advRet, casWins>>
    /\ UNCHANGED callers

\* the injected clock advances
Tick ==
    /\ now < MaxNow
    /\ now' = now + 1
    /\ last' = Call("Tick", NoSub, <<>>, "none", {}, 0, "nil")
    /\ prev' = table
    /\ UNCHANGED <<table, txnTime, written, advRet, casWins>>
    /\ UNCHANGED callers

Next ==
    \/ \E s \in Subscriptions : InsertSubscription(s)
    \/ \E s \in DeleteArgs : DeleteSubscription(s)
    \/ \E c \in {<<1>>, <<2>>} : UpdateNotificationIdxsInCells(c)
    \/ \E i \in IDs : GetSubscription(i)
    \/ Tick

Spec == Init /\ [][Next]_vars

\* the store under search and quota traffic: new subscriptions and queries
NextSearch ==
    \/ \E s \in SearchInputs : InsertInvalid(s) \/ Insert(s)
    \/ \E c \in QueryCells : SearchSubscriptions(c)
    \/ \E c \in QueryCells, o \in Owners : SearchSubscriptionsByOwner(c, o)
    \/ \E c \in QueryCells, o \in Owners : MaxSubscriptionCountInCellsByOwner(c, o)
    \/ Tick

SpecSearch == Init /\ [][NextSearch]_vars

\* the store under notification traffic: advances next to the queries
NextAdvance ==
    \/ \E s \in AdvanceInputs : Insert(s)
    \/ \E c \in {<<1>>, <<2>>} : UpdateNotificationIdxsInCells(c)
    \/ \E c \in {<<1>>, <<2>>} : SearchSubscriptions(c)
    \/ \E c \in {<<1>>, <<2>>}, o \in Owners : SearchSubscriptionsByOwner(c, o)
    \/ \E c \in {<<1>>, <<2>>}, o \in Owners : MaxSubscriptionCountInCellsByOwner(c, o)
    \/ \E i \in IDs : GetSubscription(i)
    \/ Tick

SpecAdvance == Init /\ [][NextAdvance]_vars

\* ------------------------------------------------- the validity window
\* the subscriptions callers pass in SpecLife: one owner, every end time (none,
\* and times before and after the clock values), every version
LifeInputs ==
    [ID : IDs, Owner : {"o1"}, URL : URLs, NotificationIndex : {0},
     Cells : {<<2>>}, StartTime : StartTimes, EndTime : {NULL, 1, 2},
     Version : {NoVersion} \cup Versions]

LifeDeleteArgs ==
    {[NoSub EXCEPT !.ID = i, !.Owner = "o1", !.Version = v] :
        i \in IDs, v \in Versions}

NextLife ==
    \/ \E s \in LifeInputs : Insert(s) \/ Update(s)
    \/ \E s \in LifeDeleteArgs : DeleteSubscription(s)
    \/ UpdateNotificationIdxsInCells(<<2>>)
    \/ \E i \in IDs : GetSubscription(i)
    \/ Tick

SpecLife == Init /\ [][NextLife]_vars

\* ------------------------------------------ processOne on statement results
\* the rows a statement handed to processOne can return: rows of every id,
\* owner, notification index and version
ResultRows ==
    {RowOf([NoSub EXCEPT !.ID = i, !.Owner = o, !.URL = "u1",
                         !.NotificationIndex = n, !.Cells = <<2>>,
                         !.StartTime = 0, !.EndTime = 1], v) :
        i \in IDs, o \in Owners, n \in Indexes, v \in Versions}

\* the results of a statement: no row, one row or two rows
StatementRows == {rs \in SUBSET ResultRows : Cardinality(rs) <= 2}

\* what the executor (QueryContext) reports
ExecutorErrs == {"nil", "ExecError"}

\* processOne(ctx, query, args...) on a statement whose executor returns the
\* rows rs, or fails with e
ProcessOneOn(rs, e) ==
    /\ LET out == processOne([tbl |-> table, rows |-> rs, err |-> e])
       IN last' = [op |-> "processOne", sub |-> NoSub, cells |-> <<>>,
                   owner |-> "none", ret |-> One(out), count |-> 0,
                   err |-> out.err, rows |-> rs, exec |-> e]
    /\ prev' = table
    /\ UNCHANGED <<table, now, txnTime, written, advRet, casWins>>
    /\ UNCHANGED callers

NextOne ==
    \/ \E rs \in StatementRows, e \in ExecutorErrs : ProcessOneOn(rs, e)
    \/ \E s \in Subscriptions : Insert(s)
    \/ \E i \in IDs : GetSubscription(i)

SpecOne == Init /\ [][NextOne]_vars

\* ------------------------------------------------- callers that retry
\* The store surfaces a lost CAS to its caller and does nothing more; the loop
\* around it is the caller's: read the row (GetSubscription), submit the write
\* with the version read (InsertSubscription or DeleteSubscription), and on
\* sql.ErrNoRows read again.  Each caller wants one write to succeed.
InitRetry ==
    /\ table = {}
    /\ now = 0
    /\ txnTime = 0
    /\ prev = {}
    /\ last = Call("init", NoSub, <<>>, "none", {}, 0, "nil")
    /\ written = [i \in IDs |-> NoRow]
    /\ advRet = [i \in IDs |-> <<>>]
    /\ casWins = [k \in IDs \X Stamps |-> [update |-> 0, delete |-> 0]]
    /\ callers \in [Callers -> [pc : {"read"}, kind : {"update", "delete"},
                                held : {NoVersion}, clean : {FALSE},
                                lost : {FALSE}, lostClean : {FALSE}]]

\* what a submission does to the callers: the submitter c is done, or has lost
\* and goes back to reading; a write that committed makes the version every
\* other caller read since a stale one
AfterSubmit(c, err) ==
    [d \in Callers |->
        IF d = c
        THEN IF err = "nil"
             THEN [callers[c] EXCEPT !.pc = "done"]
             ELSE [callers[c] EXCEPT !.pc = "read", !.lost = TRUE,
                                     !.lostClean = @ \/ callers[c].clean]
        ELSE IF err = "nil"
             THEN [callers[d] EXCEPT !.clean = FALSE]
             ELSE callers[d]]

\* caller c reads the row: GetSubscription(RetryID)
CallerRead(c) ==
    /\ callers[c].pc = "read"
    /\ LET out == processOne(getQuery(table, RetryID))
       IN /\ last' = Call("GetSubscription", [NoSub EXCEPT !.ID = RetryID], <<>>,
                          "none", One(out), 0, out.err)
          /\ callers' = [callers EXCEPT ![c] =
                            IF out.err = "nil"
                            THEN [@ EXCEPT !.pc = "submit",
                                           !.held = out.sub.Version,
                                           !.clean = TRUE]
                            ELSE [@ EXCEPT !.pc = "notfound"]]
    /\ prev' = table
    /\ UNCHANGED <<table, now, txnTime, written, advRet, casWins>>

\* caller c submits its update with the version it read: InsertSubscription
CallerUpdate(c) ==
    /\ callers[c].pc = "submit"
    /\ callers[c].kind = "update"
    /\ LET s == RetrySub(callers[c].held)
           res == IF s.Version = NoVersion
                  THEN insertQuery(table, s, txnTime + 1)
                  ELSE udpateQuery(table, s, txnTime + 1)
           out == processOne(res)
       IN /\ res.tbl # table => txnTime < RetryMaxTs
          /\ table' = res.tbl
          /\ txnTime' = IF res.tbl # table THEN txnTime + 1 ELSE txnTime
          /\ last' = Call("InsertSubscription", Arg(s, out.err), <<>>, "none",
                          One(out), 0, out.err)
          /\ written' = IF out.err = "nil"
                        THEN [written EXCEPT ![s.ID] = RowFor(res.tbl, s.ID)]
                        ELSE written
          /\ advRet' = IF out.err = "nil" THEN [advRet EXCEPT ![s.ID] = <<>>]
                       ELSE advRet
          /\ casWins' = IF out.err = "nil" /\ s.Version # NoVersion
                        THEN [casWins EXCEPT ![<<s.ID, s.Version>>].update = @ + 1]
                        ELSE casWins
          /\ callers' = AfterSubmit(c, out.err)
    /\ prev' = table
    /\ UNCHANGED now

\* caller c submits its delete with the version it read: DeleteSubscription
CallerDelete(c) ==
    /\ callers[c].pc = "submit"
    /\ callers[c].kind = "delete"
    /\ LET s == RetrySub(callers[c].held)
           res == deleteQuery(table, s)
           out == processOne(res)
       IN /\ table' = res.tbl
          /\ last' = Call("DeleteSubscription", Key(s), <<>>, "none", One(out), 0,
                          out.err)
          /\ written' = IF out.err = "nil" THEN [written EXCEPT ![s.ID] = NoRow]
                        ELSE written
          /\ advRet' = IF out.err = "nil" THEN [advRet EXCEPT ![s.ID] = <<>>]
                       ELSE advRet
          /\ casWins' = IF out.err = "nil"
                        THEN [casWins EXCEPT ![<<s.ID, s.Version>>].delete = @ + 1]
                        ELSE casWins
          /\ callers' = AfterSubmit(c, out.err)
    /\ prev' = table
    /\ UNCHANGED <<now, txnTime>>

CallerStep(c) == CallerRead(c) \/ CallerUpdate(c) \/ CallerDelete(c)

\* the row is created, and created again after a delete, by InsertSubscription
\* with an empty version; notification traffic advances it
NextRetry ==
    \/ \E c \in Callers : CallerRead(c)
    \/ \E c \in Callers : CallerUpdate(c)
    \/ \E c \in Callers : CallerDelete(c)
    \/ Insert(RetrySub(NoVersion))
    \/ UpdateNotificationIdxsInCells(<<2>>)
    \/ Tick

\* every caller that can take a step of its loop eventually takes one
FairRetry == \A c \in Callers : WF_vars(CallerStep(c))

SpecRetry == InitRetry /\ [][NextRetry]_vars /\ FairRetry

TypeOK ==
    /\ \A r \in table :
          /\ DOMAIN r = Range(subscriptionFields)
          /\ r.id \in IDs /\ r.owner \in Owners /\ r.url \in URLs
          /\ Range(Scan(r).Cells) \subseteq CellIDs
          /\ r.updated_at \in 1..txnTime
    /\ now \in 0..MaxNow
    /\ txnTime \in 0..MaxTs

\* ------------------------------------------------------------ the claims
IsUpdateCall == last.op = "InsertSubscription" /\ last.sub.Version # NoVersion
                /\ last.err # "InvalidCell"
IsInsertCall == last.op = "InsertSubscription" /\ last.sub.Version = NoVersion
                /\ last.err # "InvalidCell"
IsDeleteCall == last.op = "DeleteSubscription"

Wins(id, v) == casWins[<<id, v>>].update + casWins[<<id, v>>].delete

\* C1: CAS correctness.  An Update presenting the stored version V1 of the row
\* succeeds, returns the stored entity, and the row's new version differs from
\* V1; an Update presenting a version a CAS call already won with fails with
\* sql.ErrNoRows and leaves the relation as it was.
C1_CasCorrectness ==
    IsUpdateCall =>
        LET s == last.sub IN
        /\ (\E r \in prev : r.id = s.ID /\ r.updated_at = s.Version) =>
              /\ last.err = "nil"
              /\ \A sub \in last.ret :
                    /\ sub.Version # s.Version
                    /\ sub.Version # NoVersion
                    /\ Scan(RowFor(table, s.ID)) = sub
              /\ last.ret # {}
              /\ \A r \in table : r.id = s.ID => r.updated_at # s.Version
        /\ (last.err = "nil") => Wins(s.ID, s.Version) = 1
        /\ (last.err # "nil") => last.err = "ErrNoRows" /\ table = prev
        /\ (last.err # "nil") =>
              ~ \E r \in prev : r.id = s.ID /\ r.updated_at = s.Version

\* C1 witness: a first Update won with V1, the row lives on under another
\* version, and a second Update presenting V1 has just failed.
C1_Witness ==
    /\ IsUpdateCall
    /\ last.err = "ErrNoRows"
    /\ casWins[<<last.sub.ID, last.sub.Version>>].update = 1
    /\ \E r \in table : r.id = last.sub.ID /\ r.updated_at # last.sub.Version

\* C2: of all CAS calls (Update, Delete) presenting the same version of the
\* same id at most one succeeds; a CAS call that does not succeed returns
\* sql.ErrNoRows and leaves the relation as it was.
C2_AtMostOneCasWinner ==
    /\ \A i \in IDs, v \in Versions : Wins(i, v) <= 1
    /\ (IsUpdateCall \/ IsDeleteCall) /\ last.err # "nil" =>
          last.err = "ErrNoRows" /\ table = prev

\* C2 witness: an Update and a Delete presented the same version; the Update
\* won and the Delete has just lost against the live row.
C2_Witness ==
    /\ IsDeleteCall
    /\ last.err = "ErrNoRows"
    /\ casWins[<<last.sub.ID, last.sub.Version>>].update = 1
    /\ \E r \in table : r.id = last.sub.ID /\ r.owner = last.sub.Owner

\* the rows a call over cells at time t is specified to act on: active rows
\* (an end time, not before t) sharing at least one cell with cells
Active(r, t) == r.ends_at # NULL /\ ~(r.ends_at < t)
SharesCell(r, cells) == Range(Scan(r).Cells) \cap Range(cells) # {}
Plus(r, k) == [r EXCEPT !.notification_index = r.notification_index + k]

IsAdvanceCall == last.op = "UpdateNotificationIdxsInCells"

\* C3: one call of UpdateNotificationIdxsInCells(cells) adds exactly 1 to the
\* index of every active row sharing a cell with cells, touches no other row,
\* and returns exactly the updated rows with the new index; after k calls that
\* matched a row since it was written its index is k above the written one.
C3_AdvanceByOne ==
    /\ IsAdvanceCall =>
          /\ last.err = "nil"
          /\ table = {IF Active(r, now) /\ SharesCell(r, last.cells)
                      THEN Plus(r, 1) ELSE r : r \in prev}
          /\ last.ret = {Scan(Plus(r, 1)) :
                            r \in {x \in prev : Active(x, now)
                                                /\ SharesCell(x, last.cells)}}
    /\ \A r \in table :
          r.notification_index
              = written[r.id].notification_index + Len(advRet[r.id])

\* C3 witness: a call has just advanced one row for the second time and left
\* another stored row, which shares no cell with it, untouched.
C3_Witness ==
    /\ IsAdvanceCall
    /\ \E a \in table, b \in table :
          /\ a.id # b.id
          /\ Len(advRet[a.id]) = 2
          /\ Scan(a) \in last.ret
          /\ Active(b, now) /\ ~SharesCell(b, last.cells)
          /\ b \in prev

\* C4: no increment is lost or doubled: the indexes returned to the n calls
\* that matched a row since it was written are the n consecutive values that
\* follow the written index, in call order, and the stored index is the last.
C4_NoLostAdvance ==
    \A r \in table :
        /\ \A k \in 1..Len(advRet[r.id]) :
              advRet[r.id][k].index = written[r.id].notification_index + k
        /\ r.notification_index
              = written[r.id].notification_index + Len(advRet[r.id])

\* C4 witness: two calls with different, overlapping cell sets both advanced
\* the same row.
C4_Witness ==
    \E r \in table :
        /\ Len(advRet[r.id]) = 2
        /\ advRet[r.id][1].cells # advRet[r.id][2].cells
        /\ advRet[r.id][1].index # advRet[r.id][2].index

\* C5 (as claimed): while a row exists its notification_index is non-negative,
\* never decreases, and changes only in a call of UpdateNotificationIdxsInCells.
C5_IndexOnlyAdvances ==
    \A r \in table :
        /\ r.notification_index >= 0
        /\ \A p \in prev :
              p.id = r.id =>
                 /\ r.notification_index >= p.notification_index
                 /\ r.notification_index # p.notification_index => IsAdvanceCall

\* C6 (as claimed): a row that carries the version of its last INSERT/UPDATE
\* has exactly the fields that statement wrote.
C6_VersionFixesAllFields ==
    \A r \in table :
        r.updated_at = written[r.id].updated_at => r = written[r.id]

\* C6 (amended): every INSERT/UPDATE stamps the row with a version no row
\* carried before, and a row that carries the version of its last INSERT/UPDATE
\* has the owner, url, cells, start and end time that statement wrote; only its
\* notification_index may differ, by the advances made since.
C6_VersionFixesWrittenFields ==
    /\ \A r \in table :
          /\ r.updated_at = written[r.id].updated_at
          /\ [r EXCEPT !.notification_index = written[r.id].notification_index]
                = written[r.id]
          /\ r.notification_index >= written[r.id].notification_index
          /\ r.updated_at \in 1..txnTime
    /\ \A r \in table, q \in table : r.updated_at = q.updated_at => r = q
    /\ (IsInsertCall \/ IsUpdateCall) /\ last.err = "nil" =>
          /\ \A sub \in last.ret : sub.Version = txnTime
          /\ \A p \in prev : p.updated_at < txnTime

\* C6 witness: a row still carries the version it was written with although
\* an advance has changed its notification_index since.
C6_Witness ==
    /\ IsAdvanceCall
    /\ \E r \in table :
          /\ r.updated_at = written[r.id].updated_at
          /\ r.notification_index > written[r.id].notification_index

\* C7: Delete removes a row, and returns it as it was, exactly when a stored
\* row matches the id, the owner and the version presented; then the id is no
\* longer found.  Otherwise it returns sql.ErrNoRows and the relation stays.
C7_DeleteOwnership ==
    IsDeleteCall =>
        LET s == last.sub
            match == {r \in prev : r.id = s.ID /\ r.owner = s.Owner
                                   /\ r.updated_at = s.Version}
        IN IF match # {}
           THEN /\ last.err = "nil"
                /\ last.ret = {Scan(r) : r \in match}
                /\ table = prev \ match
                /\ processOne(getQuery(table, s.ID)).err = "ErrNoRows"
           ELSE /\ last.err = "ErrNoRows"
                /\ last.ret = {}
                /\ table = prev

\* C7 witness: a Delete presenting the right id and version but another owner
\* has just failed; the row is still stored.
C7_Witness ==
    /\ IsDeleteCall
    /\ last.err = "ErrNoRows"
    /\ \E r \in table :
          /\ r.id = last.sub.ID
          /\ r.updated_at = last.sub.Version
          /\ r.owner # last.sub.Owner

IsSearchCall == last.op = "SearchSubscriptions" /\ last.cells # <<>>
IsSearchByOwnerCall == last.op = "SearchSubscriptionsByOwner" /\ last.cells # <<>>
IsMaxCountCall == last.op = "MaxSubscriptionCountInCellsByOwner"

\* C8: for a non-empty cell union, SearchSubscriptions returns exactly the
\* stored rows that are active and share at least one cell with it, and
\* SearchSubscriptionsByOwner exactly those of them owned by the given owner.
C8_SearchExact ==
    /\ IsSearchCall =>
          /\ last.err = "nil"
          /\ last.ret = {Scan(r) : r \in {x \in table :
                            Active(x, now) /\ SharesCell(x, last.cells)}}
    /\ IsSearchByOwnerCall =>
          /\ last.err = "nil"
          /\ last.ret = {Scan(r) : r \in {x \in table :
                            /\ Active(x, now) /\ SharesCell(x, last.cells)
                            /\ x.owner = last.owner}}

\* C8 witness: a search has just returned a row that overlaps the query
\* without being contained in it, and left out a stored row that shares no cell.
C8_Witness ==
    /\ IsSearchCall
    /\ \E s \in last.ret : ~(Range(s.Cells) \subseteq Range(last.cells))
    /\ \E r \in table : Active(r, now) /\ Scan(r) \notin last.ret

Expired(r, t) == r.ends_at = NULL \/ r.ends_at < t

\* C9: expiry exclusion.  A row without end time, or whose end time is before
\* now, is returned by no search, changed or returned by no advance, and
\* counted by no quota call, whatever its cells and owner.
C9_ExpiryExclusion ==
    /\ (IsSearchCall \/ IsSearchByOwnerCall \/ IsAdvanceCall) =>
          \A s \in last.ret : s.EndTime # NULL /\ s.EndTime >= now
    /\ IsAdvanceCall =>
          \A r \in prev : Expired(r, now) => r \in table
    /\ IsMaxCountCall =>
          last.count = maxCountQuery({r \in table : ~Expired(r, now)},
                                     last.owner, now, Cids(last.cells))

\* C9 witness: an advance has just run over the cells of a stored row whose
\* end time has passed, and over those of a row without end time.
C9_Witness ==
    /\ IsAdvanceCall
    /\ \E r \in table : /\ r.ends_at # NULL /\ r.ends_at < now
                        /\ SharesCell(r, last.cells)
    /\ \E r \in table : r.ends_at = NULL /\ SharesCell(r, last.cells)

\* the number of owner's active subscriptions whose cells contain c
Covering(tbl, owner, t, c) ==
    Cardinality({r \in tbl : /\ r.owner = owner /\ Active(r, t)
                            /\ c \in Range(Scan(r).Cells)})

\* C10 (as claimed): MaxSubscriptionCountInCellsByOwner(cells, owner) returns
\* the maximum over the queried cells of the number of owner's active
\* subscriptions covering the cell, 0 when there is none.
C10_QuotaMax ==
    IsMaxCountCall =>
        last.count = Max({Covering(table, last.owner, now, c) :
                             c \in Range(last.cells)} \cup {0})

\* C11: bad input.  SearchSubscriptions and SearchSubscriptionsByOwner called
\* with an empty cell union return a BadRequest error and no result, never an
\* empty success, and leave the relation as it was.
C11_EmptyCellsBadRequest ==
    (last.op \in {"SearchSubscriptions", "SearchSubscriptionsByOwner"}
     /\ last.cells = <<>>) =>
        /\ last.err = "BadRequest"
        /\ last.ret = {}
        /\ table = prev

\* C11 witness: a search with an empty cell union has just been refused while
\* rows are stored.
C11_Witness ==
    /\ last.op = "SearchSubscriptions"
    /\ last.cells = <<>>
    /\ last.err = "BadRequest"
    /\ table # {}

Stored(tbl, id) == \E r \in tbl : r.id = id

SameCallerFields(a, b) ==
    /\ a.ID = b.ID
    /\ a.Owner = b.Owner
    /\ a.URL = b.URL
    /\ a.NotificationIndex = b.NotificationIndex
    /\ a.Cells = b.Cells
    /\ a.StartTime = b.StartTime
    /\ a.EndTime = b.EndTime

\* C12: round trip.  An InsertSubscription with an empty version, valid cells
\* and an id that was not stored succeeds; the subscription it returns and the
\* one a GetSubscription of that id then returns are the same, equal to the
\* argument in id, owner, url, notification index, cells, start and end time,
\* and carry a non-empty version.
C12_RoundTrip ==
    (IsInsertCall /\ ~Stored(prev, last.sub.ID)) =>
        /\ last.err = "nil"
        /\ \E ins \in last.ret :
              /\ last.ret = {ins}
              /\ SameCallerFields(ins, last.sub)
              /\ ins.Version # NoVersion
              /\ LET got == processOne(getQuery(table, last.sub.ID))
                 IN /\ got.err = "nil"
                    /\ SameCallerFields(got.sub, last.sub)
                    /\ got.sub.Version = ins.Version

C12_Witness ==
    /\ IsInsertCall
    /\ ~Stored(prev, last.sub.ID)
    /\ prev # {}
    /\ last.err = "nil"
    /\ last.sub.Cells = <<2>>
    /\ \E r \in table : r.id = last.sub.ID /\ r.cells # last.sub.Cells

\* C13: one row per id.  In every reachable state no two rows of the table have
\* the same id; an InsertSubscription with an empty version whose id is stored
\* fails and leaves the table as it was; GetSubscription never finds more than
\* one row.
C13_OneRowPerId ==
    /\ \A r1, r2 \in table : r1.id = r2.id => r1 = r2
    /\ (IsInsertCall /\ Stored(prev, last.sub.ID)) =>
           /\ last.err # "nil"
           /\ last.ret = {}
           /\ table = prev
    /\ last.op = "GetSubscription" => last.err # "TooManyRows"

C13_Witness ==
    /\ IsInsertCall
    /\ Stored(prev, last.sub.ID)
    /\ last.err = "DuplicateKey"
    /\ Cardinality(table) = 2

\* C14: id and owner are immutable.  No call changes the set of ids of the rows
\* it keeps, nor the owner of a row that is stored before and after it (a row
\* cannot be deleted and created again within one call, so a row stored on
\* both sides of a call is the same subscription).
C14_IdOwnerImmutable ==
    /\ \A r \in prev, q \in table : r.id = q.id => r.owner = q.owner
    /\ IsUpdateCall => {r.id : r \in table} = {r.id : r \in prev}

\* what processOne must answer for the rows rs of a statement whose executor
\* reported e: the answer ret (the set holding the entity, or empty) and err
Classified(rs, e, ret, err) ==
    /\ e # "nil" => err = e /\ ret = {}
    /\ (e = "nil" /\ Cardinality(rs) = 0) => err = "ErrNoRows" /\ ret = {}
    /\ (e = "nil" /\ Cardinality(rs) = 1) => err = "nil" /\ ret = {Scan(r) : r \in rs}
    /\ (e = "nil" /\ Cardinality(rs) > 1) => err = "TooManyRows" /\ ret = {}

\* C15: single-row classification.  processOne returns the entity for exactly
\* one row, sql.ErrNoRows for no row, an error and no entity for more than one
\* row, and passes an executor error through with no entity; GetSubscription
\* answers the same way for the rows of its id, and an InsertSubscription
\* rejected by the database returns the database's error and no entity.
C15_SingleRowClassification ==
    /\ last.op = "processOne" => Classified(last.rows, last.exec, last.ret, last.err)
    /\ last.op = "GetSubscription" =>
           Classified({r \in prev : r.id = last.sub.ID}, "nil", last.ret, last.err)
    /\ (IsInsertCall /\ Stored(prev, last.sub.ID)) =>
           Classified({}, "DuplicateKey", last.ret, last.err)
    /\ (IsInsertCall /\ ~Stored(prev, last.sub.ID)) =>
           Classified({r \in table : r.id = last.sub.ID}, "nil", last.ret, last.err)

C15_Witness ==
    /\ last.op = "processOne"
    /\ last.exec = "nil"
    /\ Cardinality(last.rows) = 2
    /\ \E r1, r2 \in last.rows : r1 # r2 /\ r1.id = r2.id
    /\ last.err = "TooManyRows"

HasInvalidCell(cells) == \E i \in DOMAIN cells : ValidateCell(cells[i]) # "nil"

\* C16: validation before any write.  An InsertSubscription whose cells hold an
\* invalid cell, in whatever position and with whatever version, returns the
\* validation error and no subscription, and the table is what it was before
\* the call.
C16_ValidationBeforeWrite ==
    (last.op = "InsertSubscription" /\ HasInvalidCell(last.sub.Cells)) =>
        /\ last.err = "InvalidCell"
        /\ last.ret = {}
        /\ table = prev

C16_Witness ==
    /\ last.op = "InsertSubscription"
    /\ last.sub.Cells = <<2, 0>>
    /\ last.err = "InvalidCell"
    /\ \E r \in table : r.id = last.sub.ID /\ r.updated_at = last.sub.Version

UpdateMatches(tbl, s) == \E r \in tbl : r.id = s.ID /\ r.updated_at = s.Version

DeleteMatches(tbl, s) ==
    \E r \in tbl : r.id = s.ID /\ r.owner = s.Owner /\ r.updated_at = s.Version

\* C17: a CAS that matches no row.  An Update whose (id, version), or a Delete
\* whose (id, owner, version), matches no stored row (the id is unknown, the
\* version is stale, or for Delete the owner differs) returns sql.ErrNoRows and
\* no subscription in each of these cases, and the table is left as it was.
C17_ZeroRowCas ==
    /\ (IsUpdateCall /\ ~UpdateMatches(prev, last.sub)) =>
           last.err = "ErrNoRows" /\ last.ret = {} /\ table = prev
    /\ (IsDeleteCall /\ ~DeleteMatches(prev, last.sub)) =>
           last.err = "ErrNoRows" /\ last.ret = {} /\ table = prev

\* a Delete with the stored version and another owner
C17_Witness ==
    /\ IsDeleteCall
    /\ last.err = "ErrNoRows"
    /\ \E r \in prev : /\ r.id = last.sub.ID
                        /\ r.updated_at = last.sub.Version
                        /\ r.owner # last.sub.Owner
    /\ table = prev

C17_WitnessUnknownId ==
    /\ IsUpdateCall
    /\ last.err = "ErrNoRows"
    /\ ~Stored(prev, last.sub.ID)
    /\ prev # {}

C17_WitnessStale ==
    /\ IsUpdateCall
    /\ last.err = "ErrNoRows"
    /\ Stored(prev, last.sub.ID)

\* the lifecycle state of the subscription id in the table tbl at the time t
LifeState(tbl, id, t) ==
    IF ~Stored(tbl, id) THEN "absent"
    ELSE IF Active(RowFor(tbl, id), t) THEN "active" ELSE "expired"

\* the clock before the last call: only Tick moves it
PrevNow == IF last.op = "Tick" THEN now - 1 ELSE now

Before(id) == LifeState(prev, id, PrevNow)
After(id) == LifeState(table, id, now)

Succeeded(call) == call /\ last.err = "nil"

\* C18 (as stated): the lifecycle state of a subscription changes only from
\* absent to active by an Insert, from active to expired by the clock alone,
\* and from active or expired to absent by a Delete.
C18_Lifecycle ==
    \A id \in IDs :
        Before(id) # After(id) =>
            \/ /\ Before(id) = "absent" /\ After(id) = "active"
               /\ Succeeded(IsInsertCall) /\ last.sub.ID = id
            \/ /\ Before(id) = "active" /\ After(id) = "expired"
               /\ last.op = "Tick"
            \/ /\ Before(id) \in {"active", "expired"} /\ After(id) = "absent"
               /\ Succeeded(IsDeleteCall) /\ last.sub.ID = id

\* C18 (amended): the lifecycle state of a subscription changes only
\*   from absent to active, or to expired when the end time passed is absent or
\*     before now, by an Insert;
\*   from active to expired by the clock alone, or by an Update whose end time
\*     is absent or before now;
\*   from expired to active by an Update whose end time is at or after now;
\*   from active or expired to absent by a Delete.
\* UpdateNotificationIdxsInCells and GetSubscription change no state, and an
\* expired row is still returned by GetSubscription.
C18_LifecycleAmended ==
    \A id \in IDs :
        /\ Before(id) # After(id) =>
            \/ /\ Before(id) = "absent"
               /\ Succeeded(IsInsertCall) /\ last.sub.ID = id
               /\ After(id) = IF last.sub.EndTime # NULL /\ last.sub.EndTime >= now
                              THEN "active" ELSE "expired"
            \/ /\ Before(id) = "active" /\ After(id) = "expired"
               /\ last.op = "Tick"
               /\ RowFor(table, id) = RowFor(prev, id)
            \/ /\ Before(id) \in {"active", "expired"}
               /\ Succeeded(IsUpdateCall) /\ last.sub.ID = id
               /\ After(id) = IF last.sub.EndTime # NULL /\ last.sub.EndTime >= now
                              THEN "active" ELSE "expired"
            \/ /\ Before(id) \in {"active", "expired"} /\ After(id) = "absent"
               /\ Succeeded(IsDeleteCall) /\ last.sub.ID = id
        /\ (last.op = "GetSubscription" /\ last.sub.ID = id /\ Before(id) = "expired") =>
              last.err = "nil" /\ last.ret = {Scan(RowFor(table, id))}

\* an Update has made an expired subscription active again
C18_Witness ==
    /\ Succeeded(IsUpdateCall)
    /\ Before(last.sub.ID) = "expired"
    /\ After(last.sub.ID) = "active"

\* an Insert has stored a subscription that is expired from the start
C18_WitnessInsertExpired ==
    /\ Succeeded(IsInsertCall)
    /\ After(last.sub.ID) = "expired"

\* an expired subscription is read, and one is deleted
C18_WitnessGetExpired ==
    /\ last.op = "GetSubscription"
    /\ Before(last.sub.ID) = "expired"
    /\ last.err = "nil"

C18_WitnessDeleteExpired ==
    /\ Succeeded(IsDeleteCall)
    /\ Before(last.sub.ID) = "expired"

SameButIndex(r, q) == [q EXCEPT !.notification_index = r.notification_index] = r

IsReadCall ==
    last.op \in {"SearchSubscriptions", "SearchSubscriptionsByOwner",
                 "MaxSubscriptionCountInCellsByOwner", "GetSubscription"}

\* C19: the advance changes the counter only.  UpdateNotificationIdxsInCells
\* succeeds, keeps the number of rows and their ids, leaves every column of
\* every row but notification_index as it was (updated_at included), and
\* advances every active row sharing a cell whatever its updated_at; the two
\* searches, the quota count and GetSubscription leave the table as it was.
C19_AdvanceCounterOnly ==
    /\ IsAdvanceCall =>
          /\ last.err = "nil"
          /\ Cardinality(table) = Cardinality(prev)
          /\ \A r \in prev : \E q \in table : SameButIndex(r, q)
          /\ \A r \in prev, v \in Versions :
                (r.updated_at = v /\ Active(r, now) /\ SharesCell(r, last.cells))
                    => Plus(r, 1) \in table /\ r \notin table
    /\ IsReadCall => table = prev

\* two rows written at different times, one of them not the latest write, are
\* advanced by one call
C19_Witness ==
    /\ IsAdvanceCall
    /\ \E r \in prev, q \in prev :
          /\ r.updated_at < q.updated_at
          /\ Plus(r, 1) \in table /\ Plus(q, 1) \in table
          /\ r \notin table /\ q \notin table

C19_WitnessRead ==
    /\ last.op = "GetSubscription"
    /\ last.err = "nil"
    /\ \E r \in table : r.id = last.sub.ID /\ r.notification_index > 0

Finished(c) == callers[c].pc \in {"done", "notfound"}

\* C20: conflict retry.  A lost CAS leaves the table as it was (the store does
\* not try again); no caller loses a submission made with the version it read
\* when no Update or Delete committed since that read; and every caller that
\* lost a submission eventually wins one or reads sql.ErrNoRows.
C20_ConflictRetry ==
    /\ []((IsUpdateCall \/ IsDeleteCall) /\ last.err # "nil" => table = prev)
    /\ [](\A c \in Callers : ~callers[c].lostClean)
    /\ \A c \in Callers : callers[c].lost ~> Finished(c)

\* a caller lost its update, read again, and won with the version it read
C20_Witness ==
    \E c \in Callers :
        /\ callers[c].kind = "update"
        /\ callers[c].lost
        /\ callers[c].pc = "done"
        /\ IsUpdateCall /\ last.err = "nil"
        /\ last.sub.Version = txnTime - 1

====
